---- MODULE Spec2Model ----
(***************************************************************************)
(* dockershrink: AIService.add_multistage_builds (src/dockershrink/ai.py). *)
(*                                                                         *)
(* A string is a sequence of one-character strings.  The long fixed texts  *)
(* of the prompt templates are abbreviated to one element each; every      *)
(* newline, space and backtick next to an interpolated value is kept.      *)
(* A Python value that may be None is a record [kind, val].                *)
(***************************************************************************)
EXTENDS Naturals, Sequences, FiniteSets

VARIABLES pc, linesep, invocations, requestsSent, dockerfile, scripts,
          request, outcome, completion, result, error

vars == <<pc, linesep, invocations, requestsSent, dockerfile, scripts,
          request, outcome, completion, result, error>>

----------------------------------------------------------------------------
(* Bounds of the model *)

MaxCalls == 2
MaxDockerfileLen == 2
MaxScripts == 2
MaxCompletionLen == 5

----------------------------------------------------------------------------
(* Python values *)

PyNone == [kind |-> "none", val |-> <<>>]
PyStr(s) == [kind |-> "str", val |-> s]

SeqsUpTo(S, n) == UNION {[1..k -> S] : k \in 0..n}

Range(s) == {s[i] : i \in 1..Len(s)}

----------------------------------------------------------------------------
(* str(int): the decimal digits, most significant first *)

DigitChars == <<"0", "1", "2", "3", "4", "5", "6", "7", "8", "9">>

RECURSIVE IntToStr(_)
IntToStr(n) ==
    IF n < 10 THEN <<DigitChars[n + 1]>>
    ELSE IntToStr(n \div 10) \o <<DigitChars[(n % 10) + 1]>>

----------------------------------------------------------------------------
(* str.strip *)

\* The characters str.strip() removes when called without an argument
\* (those of them a TLA+ string can hold).
Whitespace == {" ", "\t", "\n", "\r", "\f"}

RECURSIVE LStrip(_, _)
LStrip(s, chars) ==
    IF s = <<>> \/ Head(s) \notin chars THEN s ELSE LStrip(Tail(s), chars)

RECURSIVE RStrip(_, _)
RStrip(s, chars) ==
    IF s = <<>> \/ s[Len(s)] \notin chars THEN s
    ELSE RStrip(SubSeq(s, 1, Len(s) - 1), chars)

\* s.strip(): leading and trailing whitespace removed.
StripWhitespace(s) == RStrip(LStrip(s, Whitespace), Whitespace)

\* s.strip(arg): the argument is a set of characters, not a prefix or a
\* suffix; every leading and trailing character that is in it is removed.
StripChars(s, arg) == RStrip(LStrip(s, Range(arg)), Range(arg))

\* The backtick, U+0060 (the parser takes no backtick inside a string).
Backtick == "<U+0060>"

Fence == <<Backtick, Backtick, Backtick>>

\* response.strip().strip(fence).strip()
Sanitize(response) ==
    StripWhitespace(StripChars(StripWhitespace(response), Fence))

----------------------------------------------------------------------------
(* The prompt templates *)

openai_model == "gpt-4o-2024-08-06"

multistage_system_prompt ==
    <<"\n", "You are an expert software and DevOps engineer [...]", "\n",
      "* Return only the Dockerfile code in your reply", "\n",
      "* Do not include any additional formatting, such as markdown code blocks",
      "\n">>

\* "{dockerfile}".format(dockerfile=None) renders the text None.
Format(v) == IF v.kind = "none" THEN <<"N", "o", "n", "e">> ELSE v.val

multistage_user_prompt(d) ==
    <<"\n", "Optimize this Dockerfile:", "\n", "\n">>
    \o Fence \o <<"\n">> \o Format(d) \o <<"\n">> \o Fence \o <<"\n">>

prompt_npm_scripts_invoked ==
    <<"\n", "-- Details of NPM scripts invoked --", "\n", "\n",
      "NOTE: [...]", "\n", "\n", "LIST OF SCRIPTS:", "\n", "\n">>

\* Description with a fault: the numbering starts at 0.
DescriptionFromZero(i, script) ==
    IntToStr(i) \o <<".", " ", "script:", " ", Backtick>> \o script.script
    \o <<Backtick, "\n", "commands:", " ", Backtick>> \o script.commands
    \o <<Backtick, "\n">>

\* The f-string of one script, i its 0-based index: the number, the script
\* in backticks, a newline, the commands in backticks, a newline.
Description(i, script) ==
    IntToStr(i + 1) \o <<".", " ", "script:", " ", Backtick>> \o script.script
    \o <<Backtick, "\n", "commands:", " ", Backtick>> \o script.commands
    \o <<Backtick, "\n">>

\* sep.join(parts)
RECURSIVE Join(_, _)
Join(sep, parts) ==
    IF parts = <<>> THEN <<>>
    ELSE IF Len(parts) = 1 THEN parts[1]
    ELSE parts[1] \o sep \o Join(sep, Tail(parts))

ScriptsDescription(sep, ss) ==
    Join(sep, [i \in 1..Len(ss) |-> Description(i - 1, ss[i])])

\* UserPrompt with a fault: the header is appended even without scripts.
UserPromptAlwaysHeader(sep, d, ss) ==
    multistage_user_prompt(d) \o prompt_npm_scripts_invoked
    \o ScriptsDescription(sep, ss)

UserPrompt(sep, d, ss) ==
    IF ss # <<>>
    THEN multistage_user_prompt(d) \o prompt_npm_scripts_invoked
         \o ScriptsDescription(sep, ss)
    ELSE multistage_user_prompt(d)

\* Messages with a fault: the user message comes first.
MessagesUserFirst(sep, d, ss) ==
    << [role |-> "user", content |-> UserPrompt(sep, d, ss)],
       [role |-> "system", content |-> multistage_system_prompt] >>

Messages(sep, d, ss) ==
    << [role |-> "system", content |-> multistage_system_prompt],
       [role |-> "user", content |-> UserPrompt(sep, d, ss)] >>

----------------------------------------------------------------------------
(* Inputs *)

DockerfileChars == {"F", Backtick, "\n"}

DockerfileInputs ==
    {PyNone} \cup {PyStr(s) : s \in SeqsUpTo(DockerfileChars, MaxDockerfileLen)}

ScriptDescriptors ==
    { [script |-> <<"b">>, commands |-> <<"g">>],
      [script |-> <<"b">>, commands |-> <<"\n">>],
      [script |-> <<Backtick>>, commands |-> <<"g", " ">>] }

ScriptsInputs == SeqsUpTo(ScriptDescriptors, MaxScripts)

\* os.linesep
LineSeparators == {<<"\n">>, <<"\r", "\n">>}

ProviderErrors == {"APIConnectionError", "RateLimitError"}

\* A completion is its list of choices, each the content of its message.
FromNode == <<"F", "R", "O", "M", " ", "n", "o", "d", "e">>
LanguageTag == <<"d", "o", "c", "k", "e", "r", "f", "i", "l", "e">>

Wrap(ws1, tag, body, ws2) ==
    ws1 \o Fence \o tag \o <<"\n">> \o body \o <<"\n">> \o Fence \o ws2

Completions ==
    { <<>>,
      <<PyNone>>,
      <<PyStr(<<>>)>>,
      <<PyStr(FromNode)>>,
      <<PyStr(Wrap(<<>>, <<>>, FromNode, <<>>)), PyStr(<<"F">>)>> }

\* The completions of the sanitation runs: every text of up to
\* MaxCompletionLen characters, and the wrapped texts, as the first choice.
CompletionChars == {" ", "\n", Backtick, "F"}

Paddings == {<<>>, <<" ">>, <<"\n">>}
Tags == {<<>>, LanguageTag}
Bodies == {FromNode, <<"F">>}

WrappedTexts ==
    {Wrap(ws1, tag, body, ws2) :
        ws1 \in Paddings, tag \in Tags, body \in Bodies, ws2 \in Paddings}

SanitationCompletions ==
    {<<>>, <<PyNone>>}
    \cup {<<PyStr(s)>> : s \in SeqsUpTo(CompletionChars, MaxCompletionLen)}
    \cup {<<PyStr(s)>> : s \in WrappedTexts}

SanitationDockerfiles == {PyStr(FromNode)}
SanitationScripts == {<<>>, <<[script |-> <<"b">>, commands |-> <<"g">>]>>}

----------------------------------------------------------------------------
(* The state machine *)

\* No request has reached the provider.
NoRequest == [messages |-> <<>>, model |-> ""]

Init ==
    /\ pc = "idle"
    /\ linesep \in LineSeparators
    /\ invocations = 0
    /\ requestsSent = 0
    /\ dockerfile = PyNone
    /\ scripts = <<>>
    /\ request = NoRequest
    /\ outcome = "none"
    /\ completion = <<>>
    /\ result = PyNone
    /\ error = "none"

\* add_multistage_builds up to the provider call: the prompt is built and
\* the one request is sent.
add_multistage_builds(d, ss) ==
    /\ pc = "idle"
    /\ invocations < MaxCalls
    /\ pc' = "called"
    /\ invocations' = invocations + 1
    /\ dockerfile' = d
    /\ scripts' = ss
    /\ request' = [messages |-> Messages(linesep, d, ss), model |-> openai_model]
    /\ requestsSent' = requestsSent + 1
    /\ UNCHANGED <<linesep, outcome, completion, result, error>>

\* create_raises with a fault: the failed provider call is retried.
create_raises_retry(e) ==
    /\ pc = "called"
    /\ requestsSent < invocations + 1
    /\ outcome' = "raised"
    /\ requestsSent' = requestsSent + 1
    /\ UNCHANGED <<pc, linesep, invocations, dockerfile, scripts, request,
                   completion, result, error>>

\* chat.completions.create raises: nothing catches it.
create_raises(e) ==
    /\ pc = "called"
    /\ pc' = "raised"
    /\ outcome' = "raised"
    /\ error' = e
    /\ UNCHANGED <<linesep, invocations, requestsSent, dockerfile, scripts,
                   request, completion, result>>

\* chat.completions.create returns: choices[0].message.content is sanitized
\* and returned.
create_returns(c) ==
    /\ pc = "called"
    /\ outcome' = "returned"
    /\ completion' = c
    /\ IF c = <<>>
       THEN /\ pc' = "raised"
            /\ error' = "IndexError"
            /\ UNCHANGED result
       ELSE IF c[1].kind = "none"
       THEN /\ pc' = "raised"
            /\ error' = "AttributeError"
            /\ UNCHANGED result
       ELSE /\ pc' = "returned"
            /\ result' = PyStr(Sanitize(c[1].val))
            /\ UNCHANGED error
    /\ UNCHANGED <<linesep, invocations, requestsSent, dockerfile, scripts,
                   request>>

\* The caller has the result, or the exception; the call's frame is gone.
caller_resumes ==
    /\ pc \in {"returned", "raised"}
    /\ pc' = "idle"
    /\ dockerfile' = PyNone
    /\ scripts' = <<>>
    /\ request' = NoRequest
    /\ outcome' = "none"
    /\ completion' = <<>>
    /\ result' = PyNone
    /\ error' = "none"
    /\ UNCHANGED <<linesep, invocations, requestsSent>>

Next ==
    \/ \E d \in DockerfileInputs, ss \in ScriptsInputs : add_multistage_builds(d, ss)
    \/ \E e \in ProviderErrors : create_raises(e)
    \/ \E c \in Completions : create_returns(c)
    \/ caller_resumes

Spec == Init /\ [][Next]_vars

\* The same machine with few prompts and many completions.
NextSanitation ==
    \/ \E d \in SanitationDockerfiles, ss \in SanitationScripts :
          add_multistage_builds(d, ss)
    \/ \E e \in ProviderErrors : create_raises(e)
    \/ \E c \in SanitationCompletions : create_returns(c)
    \/ caller_resumes

SpecSanitation == Init /\ [][NextSanitation]_vars

----------------------------------------------------------------------------
(* Properties *)

\* The first choice's content, once the provider has returned one.
Content == completion[1]

UserContent == request.messages[2].content

StartsWith(s, prefix) ==
    Len(s) >= Len(prefix) /\ SubSeq(s, 1, Len(prefix)) = prefix

EndsWith(s, suffix) ==
    Len(s) >= Len(suffix) /\ SubSeq(s, Len(s) - Len(suffix) + 1, Len(s)) = suffix

ContainsFence(s) ==
    \E i \in 1..Len(s) : i + 2 <= Len(s) /\ SubSeq(s, i, i + 2) = Fence

\* A text made of whitespace and fence markers only.
RECURSIVE OnlyWhitespaceAndFences(_)
OnlyWhitespaceAndFences(s) ==
    \/ s = <<>>
    \/ Head(s) \in Whitespace /\ OnlyWhitespaceAndFences(Tail(s))
    \/ StartsWith(s, Fence) /\ OnlyWhitespaceAndFences(SubSeq(s, 4, Len(s)))

\* C1: a completion that is a fence, an optional language tag, a newline, a
\* body, a newline and a fence, with whitespace around it, is returned as
\* exactly the body.
C1_WrappingFenceStripped ==
    \A ws1 \in Paddings, tag \in Tags, body \in Bodies, ws2 \in Paddings :
        (pc = "returned" /\ Content.val = Wrap(ws1, tag, body, ws2))
            => result = PyStr(body)

\* C2: sanitizing the returned (already sanitized) text again changes
\* nothing.
C2_SanitizeIdempotent ==
    pc = "returned" => Sanitize(result.val) = result.val

\* C3: a call with an empty or absent dockerfile ends in an error, with no
\* request sent to the provider and nothing returned.
C3_EmptyDockerfileRejected ==
    (pc # "idle" /\ (dockerfile.kind = "none" \/ dockerfile.val = <<>>))
        => /\ pc = "raised"
           /\ request = NoRequest
           /\ requestsSent < invocations
           /\ result = PyNone

\* C4: a first choice whose content is null, empty, or only whitespace and
\* fence markers ends the call in an error, never in a returned text.
C4_UnusableContentFails ==
    (outcome = "returned" /\ completion # <<>>
        /\ (Content.kind = "none" \/ OnlyWhitespaceAndFences(Content.val)))
        => pc = "raised" /\ result = PyNone

\* C5: every call has sent exactly one request, of two messages in the
\* order system, user, the system content being the fixed instruction text
\* in every call of a sequence of calls.
C5_OneRequestSystemThenUser ==
    /\ requestsSent = invocations
    /\ pc # "idle" =>
        /\ Len(request.messages) = 2
        /\ request.messages[1].role = "system"
        /\ request.messages[2].role = "user"
        /\ request.messages[1].content = multistage_system_prompt

C5_Witness ==
    /\ invocations = MaxCalls
    /\ pc = "returned"
    /\ dockerfile = PyStr(<<"F", "\n">>)
    /\ Len(scripts) = MaxScripts

\* What follows the header in the user instruction.
ScriptBlock ==
    SubSeq(UserContent,
           Len(multistage_user_prompt(dockerfile))
               + Len(prompt_npm_scripts_invoked) + 1,
           Len(UserContent))

\* The numbered line of the claim: number, script and commands on one line.
ClaimedLine(i, s) ==
    IntToStr(i) \o <<".", " ", "script:", " ", Backtick>> \o s.script
    \o <<Backtick, " ", "commands:", " ", Backtick>> \o s.commands
    \o <<Backtick>>

RECURSIVE ClaimedBlock(_, _)
ClaimedBlock(ss, n) ==
    IF n = 0 THEN <<>>
    ELSE IF n = 1 THEN ClaimedLine(1, ss[1])
    ELSE ClaimedBlock(ss, n - 1) \o <<"\n">> \o ClaimedLine(n, ss[n])

\* C6 as stated: the script block is the one-line descriptions 1..N, a
\* single newline between two of them (a final newline allowed).
C6_OneLinePerScript ==
    (pc # "idle" /\ scripts # <<>>)
        => ScriptBlock \in {ClaimedBlock(scripts, Len(scripts)),
                            ClaimedBlock(scripts, Len(scripts)) \o <<"\n">>}

\* The description as written: the commands on a line of their own, and a
\* newline closing the description.
WrittenDescription(i, s) ==
    IntToStr(i) \o <<".", " ", "script:", " ", Backtick>> \o s.script
    \o <<Backtick>> \o <<"\n">> \o <<"commands:", " ", Backtick>>
    \o s.commands \o <<Backtick>> \o <<"\n">>

RECURSIVE WrittenBlock(_, _, _)
WrittenBlock(sep, ss, n) ==
    IF n = 0 THEN <<>>
    ELSE IF n = 1 THEN WrittenDescription(1, ss[1])
    ELSE WrittenBlock(sep, ss, n - 1) \o sep \o WrittenDescription(n, ss[n])

Occurrences(s, x) == Cardinality({i \in 1..Len(s) : s[i] = x})

\* C6, amended: after the header come exactly len(scripts) descriptions,
\* numbered 1..N in input order, each the line "<i>. script: <script in
\* backticks>", a newline, the line "commands: <commands in backticks>" and
\* a newline, the values verbatim, duplicates kept; two consecutive
\* descriptions are separated by the platform's line separator, which
\* follows the first one's closing newline.
C6_NumberedDescriptions ==
    (pc # "idle" /\ scripts # <<>>)
        => /\ ScriptBlock = WrittenBlock(linesep, scripts, Len(scripts))
           /\ Occurrences(UserContent, "script:") = Len(scripts)
           /\ Occurrences(UserContent, "LIST OF SCRIPTS:") = 1

C6_Witness ==
    /\ pc = "called"
    /\ Len(scripts) = MaxScripts
    /\ scripts[1] = scripts[2]
    /\ scripts[1].commands = <<"\n">>

\* C7: with a non-empty dockerfile and no scripts the user instruction is
\* the directive, the opening fence, the dockerfile text unchanged, the
\* closing fence, and holds no script header.
C7_DockerfileFencedNoHeader ==
    (pc # "idle" /\ dockerfile.kind = "str" /\ dockerfile.val # <<>>
        /\ scripts = <<>>)
        => LET n == Len(dockerfile.val) IN
           /\ Len(UserContent) = n + 13
           /\ SubSeq(UserContent, 1, 8) =
                <<"\n", "Optimize this Dockerfile:", "\n", "\n",
                  Backtick, Backtick, Backtick, "\n">>
           /\ SubSeq(UserContent, 9, 8 + n) = dockerfile.val
           /\ SubSeq(UserContent, 9 + n, n + 13) =
                <<"\n", Backtick, Backtick, Backtick, "\n">>
           /\ Range(UserContent) \cap Range(prompt_npm_scripts_invoked)
                \subseteq {"\n"}

C7_Witness ==
    /\ pc = "called"
    /\ scripts = <<>>
    /\ dockerfile = PyStr(<<"\n", Backtick>>)

\* C8: the returned text holds no three consecutive backticks.
C8_NoFenceInResult ==
    pc = "returned" => ~ContainsFence(result.val)

\* C9: a completion that, trimmed of whitespace, does not both start and
\* end with a fence is returned as that trimmed text, unchanged.
C9_UnfencedUntouched ==
    (pc = "returned"
        /\ ~(StartsWith(StripWhitespace(Content.val), Fence)
             /\ EndsWith(StripWhitespace(Content.val), Fence)))
        => result = PyStr(StripWhitespace(Content.val))

\* C10: when the provider call raises, or returns no choice at all, the
\* call ends in that error: no further request is sent and nothing is
\* returned.
C10_ProviderFailurePropagates ==
    (outcome = "raised" \/ (outcome = "returned" /\ completion = <<>>))
        => /\ pc = "raised"
           /\ error # "none"
           /\ result = PyNone
           /\ requestsSent = invocations

C10_Witness ==
    /\ pc = "raised"
    /\ outcome = "raised"
    /\ error = "RateLimitError"
    /\ invocations = MaxCalls

====
